---- MODULE Spec2Model ----
(***************************************************************************)
(* A model of the grid path finder of dfklegend/astar (package astar).     *)
(*                                                                         *)
(* The state is one PathFinder (its config, openList, closedList,          *)
(* startNode, endNode and steps), the position of the running query inside *)
(* doFindPath, and the value the last query returned.  A host constructs   *)
(* the engine with New and then issues FindPath / FindPathEx calls one     *)
(* after the other; one action models one iteration of the search loop.    *)
(*                                                                         *)
(* A *Node is modelled by value: parent is <<>> for nil and <<p>> for a    *)
(* pointer to the node p.  The pointed-to node is the parameter copy made  *)
(* by GetNeighborNodes, which nothing writes to afterwards.                *)
(***************************************************************************)
EXTENDS Integers, Sequences, FiniteSets, TLC

VARIABLES
    config,      \* PathFinder.config
    pfNil,       \* TRUE iff New returned (nil, error)
    openList,    \* PathFinder.openList   (sequence of nodes)
    closedList,  \* PathFinder.closedList (sequence of nodes)
    startNode,   \* PathFinder.startNode
    endNode,     \* PathFinder.endNode
    steps,       \* PathFinder.steps
    ctx,         \* the IContext argument of the running / last query
    maxSteps,    \* the maxSteps argument of the running / last query
    pc,          \* "idle" between queries, "loop" inside the for loop
    ret,         \* what the last query returned
    closed0,     \* closedList as the running / last query found it
    prev,        \* outcome of the preceding query, kept when that query had
                 \* no step budget and this one repeats its start, end, Context
    queries      \* "none", "first" or "later": queries issued to the engine

vars == <<config, pfNil, openList, closedList, startNode, endNode, steps,
          ctx, maxSteps, pc, ret, closed0, prev, queries>>

----------------------------------------------------------------------------
(* Bounds of the model *)

MaxBudget == 3

----------------------------------------------------------------------------
(* Program constants and data *)

StepsNoLimit == -1

ErrNil == "nil"
ErrorNoPath == "no path found"
ErrMinF == "cannot get minF node"

NilPtr == <<>>

Node(x, y) ==
    [X |-> x, Y |-> y, f |-> 0, g |-> 0, h |-> 0, Weighting |-> 0,
     parent |-> NilPtr]

WNode(x, y, w) == [Node(x, y) EXCEPT !.Weighting = w]

Config(w, h, inv, wt) ==
    [GridWidth |-> w, GridHeight |-> h, InvalidNodes |-> inv,
     WeightedNodes |-> wt]

Abs(i) == IF i < 0 THEN -i ELSE i

SameXY(a, b) == a.X = b.X /\ a.Y = b.Y

XY(n) == <<n.X, n.Y>>

----------------------------------------------------------------------------
(* List: the open / closed container *)

ListAdd(l, nodes) == l \o nodes

ListGetIndex(l, searchNode) ==
    IF \E i \in 1..Len(l) : SameXY(l[i], searchNode)
    THEN CHOOSE i \in 1..Len(l) :
            /\ SameXY(l[i], searchNode)
            /\ \A j \in 1..(i - 1) : ~SameXY(l[j], searchNode)
    ELSE 0

ListContains(l, searchNode) == ListGetIndex(l, searchNode) > 0

ListRemove(l, removeNode) ==
    LET index == ListGetIndex(l, removeNode) IN
    IF index > 0
    THEN SubSeq(l, 1, index - 1) \o SubSeq(l, index + 1, Len(l))
    ELSE l

ListIsEmpty(l) == Len(l) = 0

ListClear(l) == <<>>

\* index of the first node with the smallest f; 0 on an empty list
ListGetIndexOfMinF(l) ==
    IF Len(l) = 0 THEN 0
    ELSE CHOOSE i \in 1..Len(l) :
            /\ \A j \in 1..Len(l) : l[i].f <= l[j].f
            /\ \A j \in 1..(i - 1) : l[j].f > l[i].f

ListGetMinFNode(l) ==
    LET minFIndex == ListGetIndexOfMinF(l) IN
    IF minFIndex = 0
    THEN [node |-> Node(0, 0), err |-> TRUE]
    ELSE [node |-> l[minFIndex], err |-> FALSE]

----------------------------------------------------------------------------
(* IContext: nil, or a host object answering IsInBlock and IsNearEnough *)

CtxNil == [isNil |-> TRUE, blocked |-> {}, near |-> {}]

Ctx(b, n) == [isNil |-> FALSE, blocked |-> b, near |-> n]

IsInBlock(c, x, y) == <<x, y>> \in c.blocked

IsNearEnough(c, x, y) == <<x, y>> \in c.near

----------------------------------------------------------------------------
(* PathFinder *)

init(cfg) == ListAdd(<<>>, cfg.InvalidNodes)

\* New with the two size tests joined by "and" (a faulty variant)
New_AndMutant(cfg) ==
    IF cfg.GridWidth < 2 /\ cfg.GridHeight < 2
    THEN [nil |-> TRUE, closedList |-> <<>>, openList |-> <<>>]
    ELSE [nil |-> FALSE, closedList |-> init(cfg), openList |-> <<>>]

New(cfg) ==
    IF cfg.GridWidth < 2 \/ cfg.GridHeight < 2
    THEN [nil |-> TRUE, closedList |-> <<>>, openList |-> <<>>]
    ELSE [nil |-> FALSE, closedList |-> init(cfg), openList |-> <<>>]

\* H measuring the Y distance against nodeB.X (a faulty variant)
H_WrongAxisMutant(nodeA, nodeB) ==
    Abs(nodeA.X - nodeB.X) + Abs(nodeA.Y - nodeB.X)

H(nodeA, nodeB) == Abs(nodeA.X - nodeB.X) + Abs(nodeA.Y - nodeB.Y)

\* isAccessible never asking the Context (a faulty variant)
isAccessible_NoBlockMutant(cfg, closed, c, node) ==
    IF \/ node.X < 0 \/ node.Y < 0
       \/ node.X > cfg.GridWidth - 1 \/ node.Y > cfg.GridHeight - 1
    THEN FALSE
    ELSE IF ListContains(closed, node)
    THEN FALSE
    ELSE TRUE

isAccessible(cfg, closed, c, node) ==
    IF \/ node.X < 0 \/ node.Y < 0
       \/ node.X > cfg.GridWidth - 1 \/ node.Y > cfg.GridHeight - 1
    THEN FALSE
    ELSE IF ~c.isNil /\ IsInBlock(c, node.X, node.Y)
    THEN FALSE
    ELSE IF ListContains(closed, node)
    THEN FALSE
    ELSE TRUE

Keep(cfg, closed, c, n) ==
    IF isAccessible(cfg, closed, c, n) THEN <<n>> ELSE <<>>

\* GetNeighborNodes building the right neighbour one row up (a faulty variant)
GetNeighborNodes_DiagonalMutant(cfg, closed, c, node) ==
    LET upNode    == [Node(node.X, node.Y + 1) EXCEPT !.parent = <<node>>]
        downNode  == [Node(node.X, node.Y - 1) EXCEPT !.parent = <<node>>]
        leftNode  == [Node(node.X - 1, node.Y) EXCEPT !.parent = <<node>>]
        rightNode ==
            [Node(node.X + 1, node.Y + 1) EXCEPT !.parent = <<node>>]
    IN  Keep(cfg, closed, c, upNode) \o Keep(cfg, closed, c, downNode)
          \o Keep(cfg, closed, c, leftNode) \o Keep(cfg, closed, c, rightNode)

GetNeighborNodes(cfg, closed, c, node) ==
    LET upNode    == [Node(node.X, node.Y + 1) EXCEPT !.parent = <<node>>]
        downNode  == [Node(node.X, node.Y - 1) EXCEPT !.parent = <<node>>]
        leftNode  == [Node(node.X - 1, node.Y) EXCEPT !.parent = <<node>>]
        rightNode == [Node(node.X + 1, node.Y) EXCEPT !.parent = <<node>>]
    IN  Keep(cfg, closed, c, upNode) \o Keep(cfg, closed, c, downNode)
          \o Keep(cfg, closed, c, leftNode) \o Keep(cfg, closed, c, rightNode)

\* IsEndNode never asking the Context (a faulty variant)
IsEndNode_NoNearMutant(c, checkNode, end) ==
    checkNode.X = end.X /\ checkNode.Y = end.Y

\* IsEndNode comparing only the X coordinate (a faulty variant)
IsEndNode_OnlyXMutant(c, checkNode, end) ==
    IF ~c.isNil /\ IsNearEnough(c, checkNode.X, checkNode.Y)
    THEN TRUE
    ELSE checkNode.X = end.X

IsEndNode(c, checkNode, end) ==
    IF ~c.isNil /\ IsNearEnough(c, checkNode.X, checkNode.Y)
    THEN TRUE
    ELSE checkNode.X = end.X /\ checkNode.Y = end.Y

RECURSIVE AddWeighting(_, _, _)
AddWeighting(wNodes, i, node) ==
    IF i > Len(wNodes) THEN node
    ELSE AddWeighting(wNodes, i + 1,
            IF node.X = wNodes[i].X /\ node.Y = wNodes[i].Y
            THEN [node EXCEPT !.g = node.g + wNodes[i].Weighting]
            ELSE node)

calculateNode(cfg, end, node) ==
    LET n1 == [node EXCEPT !.g = node.g + 1]
        n2 == AddWeighting(cfg.WeightedNodes, 1, n1)
        n3 == [n2 EXCEPT !.h = H(n2, end)]
    IN  [n3 EXCEPT !.f = n3.g + n3.h]

\* the step budget test taking a budget of 0 as a budget (a faulty variant)
BudgetReached_ZeroMutant(max, st) == max >= 0 /\ st >= max

\* the step budget test of doFindPath (line 177)
BudgetReached(max, st) == max > 0 /\ st >= max

RECURSIVE WalkParents(_, _)
WalkParents(nodePath, currentNode) ==
    IF currentNode.parent = NilPtr THEN nodePath
    ELSE LET parentNode == currentNode.parent[1] IN
         IF parentNode.parent = NilPtr THEN nodePath
         ELSE WalkParents(Append(nodePath, parentNode), parentNode)

\* getNodePath walking up to and including the start node (a faulty variant)
RECURSIVE WalkToStart(_, _)
WalkToStart(nodePath, currentNode) ==
    IF currentNode.parent = NilPtr THEN nodePath
    ELSE WalkToStart(Append(nodePath, currentNode.parent[1]),
                     currentNode.parent[1])

getNodePath_WithStartMutant(currentNode) ==
    WalkToStart(<<currentNode>>, currentNode)

getNodePath(currentNode) == WalkParents(<<currentNode>>, currentNode)

\* the loop body adding a neighbour without asking openList.Contains (a
\* faulty variant)
RECURSIVE AddNeighbors_NoOpenCheckMutant(_, _, _, _, _, _)
AddNeighbors_NoOpenCheckMutant(cfg, end, closed, open, neighbors, i) ==
    IF i > Len(neighbors) THEN open
    ELSE IF ListContains(closed, neighbors[i])
    THEN AddNeighbors_NoOpenCheckMutant(cfg, end, closed, open, neighbors,
                                        i + 1)
    ELSE AddNeighbors_NoOpenCheckMutant(cfg, end, closed,
            ListAdd(open, <<calculateNode(cfg, end, neighbors[i])>>),
            neighbors, i + 1)

\* the body of "for _, neighbor := range neighbors", from index i on
RECURSIVE AddNeighbors(_, _, _, _, _, _)
AddNeighbors(cfg, end, closed, open, neighbors, i) ==
    IF i > Len(neighbors) THEN open
    ELSE IF ListContains(closed, neighbors[i])
    THEN AddNeighbors(cfg, end, closed, open, neighbors, i + 1)
    ELSE LET neighbor == calculateNode(cfg, end, neighbors[i]) IN
         AddNeighbors(cfg, end, closed,
                      IF ~ListContains(open, neighbor)
                      THEN ListAdd(open, <<neighbor>>) ELSE open,
                      neighbors, i + 1)

\* the expansion consulting no closed list at all (a faulty variant)
Expand_IgnoreClosedMutant(cfg, end, closed, open, c, currentNode) ==
    CHOOSE open2 \in
        { AddNeighbors(cfg, end, <<>>, open, neighbors, 1) :
            neighbors \in { GetNeighborNodes(cfg, <<>>, c, currentNode) } } :
        TRUE

\* lines 183-194: the neighbours of currentNode enter the open list.  The
\* slice "neighbors" is computed once (line 183) and then ranged over; the
\* set { ... : neighbors \in { ... } } has the one element that results.
Expand(cfg, end, closed, open, c, currentNode) ==
    CHOOSE open2 \in
        { AddNeighbors(cfg, end, closed, open, neighbors, 1) :
            neighbors \in { GetNeighborNodes(cfg, closed, c, currentNode) } } :
        TRUE

\* a for loop with no condition (a faulty variant)
LoopCondition_AlwaysMutant(open) == TRUE

\* the condition of the for loop (line 161)
LoopCondition(open) == ~ListIsEmpty(open)

----------------------------------------------------------------------------
(* What a query returned *)

NoRet == [returned |-> FALSE, path |-> <<>>, err |-> ErrNil,
          terminal |-> <<>>]

NoPrev == [valid |-> FALSE]

PrevOf ==
    [valid |-> TRUE, closed0 |-> closed0, maxSteps |-> maxSteps,
     path |-> ret.path, err |-> ret.err, steps |-> steps]

----------------------------------------------------------------------------
(* The hosts' inputs *)

Configs ==
    { Config(1, 2, <<>>, <<>>),
      Config(2, 1, <<Node(0, 0)>>, <<>>),
      Config(2, 2, <<Node(1, 0)>>, <<>>),
      Config(3, 3, <<>>, <<>>),
      Config(3, 3, <<Node(1, 0), Node(0, 1), Node(2, 1), Node(1, 2)>>, <<>>),
      Config(5, 2, <<Node(1, 0)>>, <<>>),
      Config(2, 2, <<>>, <<WNode(0, 1, 2), WNode(1, 1, 1), WNode(0, 1, 1)>>) }

GridCells(cfg) ==
    { <<x, y>> : x \in 0..(cfg.GridWidth - 1), y \in 0..(cfg.GridHeight - 1) }

\* start nodes a host may pass: the grid's cells and one cell outside it
StartCells(cfg) == GridCells(cfg) \cup { <<-1, 0>> }

Contexts ==
    { CtxNil,
      Ctx({ <<1, 0>>, <<0, 1>> }, { <<2, 1>> }) }

Budgets == { StepsNoLimit } \cup 0..MaxBudget

----------------------------------------------------------------------------
(* Behaviour *)

Init ==
    /\ config \in Configs
    /\ pfNil = New(config).nil
    /\ openList = New(config).openList
    /\ closedList = New(config).closedList
    /\ startNode = Node(0, 0)
    /\ endNode = Node(0, 0)
    /\ steps = 0
    /\ ctx = CtxNil
    /\ maxSteps = 0
    /\ pc = "idle"
    /\ ret = NoRet
    /\ closed0 = <<>>
    /\ prev = NoPrev
    /\ queries = "none"

\* doFindPath up to the for loop (lines 150-159)
doFindPath(c, start, end, max) ==
    /\ ~pfNil
    /\ pc = "idle"
    /\ queries' = IF queries = "none" THEN "first" ELSE "later"
    /\ prev' = IF ret.returned /\ maxSteps = StepsNoLimit
                  /\ start = startNode /\ end = endNode /\ c = ctx
               THEN PrevOf ELSE NoPrev
    /\ startNode' = start
    /\ endNode' = end
    /\ steps' = 0
    /\ ctx' = c
    /\ maxSteps' = max
    /\ closed0' = closedList
    /\ openList' = ListAdd(openList, <<start>>)
    /\ ret' = NoRet
    /\ pc' = "loop"
    /\ UNCHANGED <<config, pfNil, closedList>>

FindPath ==
    \E c \in Contexts, s \in StartCells(config), e \in GridCells(config) :
        doFindPath(c, Node(s[1], s[2]), Node(e[1], e[2]), StepsNoLimit)

FindPathEx ==
    \E c \in Contexts, s \in StartCells(config), e \in GridCells(config),
       k \in Budgets :
        doFindPath(c, Node(s[1], s[2]), Node(e[1], e[2]), k)

\* a return statement of doFindPath followed by the deferred Clear calls
Return(path, err, terminal, newSteps) ==
    /\ ret' = [returned |-> TRUE, path |-> path, err |-> err,
               terminal |-> terminal]
    /\ steps' = newSteps
    /\ openList' = ListClear(openList)
    /\ closedList' = ListClear(closedList)
    /\ pc' = "idle"

\* one iteration of the for loop (lines 161-196)
\* (the values of the loop's local variables are bound by \E over a
\* singleton set, which makes TLC compute each of them once)
LoopBody ==
    /\ pc = "loop"
    /\ LoopCondition(openList)
    /\ \E r \in { ListGetMinFNode(openList) } :
       IF r.err
       THEN Return(<<>>, ErrMinF, <<>>, steps)
       ELSE \E currentNode \in { r.node } :
            \E open1 \in { ListRemove(openList, currentNode) } :
            \E closed1 \in { ListAdd(closedList, <<currentNode>>) } :
            \E steps1 \in { steps + 1 } :
                IF IsEndNode(ctx, currentNode, endNode)
                THEN Return(getNodePath(currentNode), ErrNil,
                            <<currentNode>>, steps1)
                ELSE IF BudgetReached(maxSteps, steps1)
                THEN Return(getNodePath(currentNode), ErrNil,
                            <<currentNode>>, steps1)
                ELSE /\ openList' = Expand(config, endNode, closed1, open1,
                                            ctx, currentNode)
                     /\ closedList' = closed1
                     /\ steps' = steps1
                     /\ UNCHANGED <<pc, ret>>
    /\ UNCHANGED <<config, pfNil, startNode, endNode, ctx, maxSteps,
                   closed0, prev, queries>>

\* the loop condition fails: return nil, ErrorNoPath (line 198)
LoopExit ==
    /\ pc = "loop"
    /\ ~LoopCondition(openList)
    /\ Return(<<>>, ErrorNoPath, <<>>, steps)
    /\ UNCHANGED <<config, pfNil, startNode, endNode, ctx, maxSteps,
                   closed0, prev, queries>>

Next == FindPath \/ FindPathEx \/ LoopBody \/ LoopExit

Spec == Init /\ [][Next]_vars

\* A host that issues one query to a fresh engine, or a query
\* FindPath(nil, S, S) followed by one more query, so that every query is
\* run once on the fresh and once on the used engine.  A query is one
\* synchronous call: once started, its loop keeps running.
SecondQuery ==
    /\ queries = "first"
    /\ ctx.isNil
    /\ maxSteps = StepsNoLimit
    /\ startNode = endNode

HostFindPath == (queries = "none" \/ SecondQuery) /\ FindPath

HostFindPathEx == (queries = "none" \/ SecondQuery) /\ FindPathEx

HostNext == HostFindPath \/ HostFindPathEx \/ LoopBody \/ LoopExit

FairSpec ==
    Init /\ [][HostNext]_vars /\ WF_vars(LoopBody) /\ WF_vars(LoopExit)

----------------------------------------------------------------------------
(* Notions the properties are stated in *)

Coords(path) == [i \in 1..Len(path) |-> XY(path[i])]

\* |dx| + |dy| of two cells
Manhattan(a, b) == Abs(a[1] - b[1]) + Abs(a[2] - b[2])

Adjacent(a, b) == Manhattan(a, b) = 1

InvalidCells(cfg) ==
    { XY(cfg.InvalidNodes[i]) : i \in 1..Len(cfg.InvalidNodes) }

\* the cells a route may enter: in bounds, not configured invalid and not
\* blocked by the Context
OpenCells(cfg, c) ==
    (GridCells(cfg) \ InvalidCells(cfg)) \ (IF c.isNil THEN {} ELSE c.blocked)

\* the cells the goal test accepts
GoalCells(c, end) == { XY(end) } \cup (IF c.isNil THEN {} ELSE c.near)

\* breadth-first distance from the frontier (d moves from the start) to the
\* nearest goal through cells of free; -1 when no goal can be reached
RECURSIVE Distance(_, _, _, _, _)
Distance(free, goals, frontier, seen, d) ==
    IF frontier \cap goals # {} THEN d
    ELSE LET nxt == { n \in free \ seen :
                        \E m \in frontier : Adjacent(n, m) }
         IN  IF nxt = {} THEN -1
             ELSE Distance(free, goals, nxt, seen \cup nxt, d + 1)

\* moves of a shortest route from start to a cell the goal test accepts
OptimalLen(cfg, c, start, end) ==
    Distance(OpenCells(cfg, c), GoalCells(c, end), { XY(start) },
             { XY(start) }, 0)

Returned == pc = "idle" /\ ret.returned

ReturnedPath == Returned /\ ret.err = ErrNil

Unlimited == maxSteps = StepsNoLimit

Contiguous(path) ==
    \A i \in 1..(Len(path) - 1) : Adjacent(XY(path[i]), XY(path[i + 1]))

----------------------------------------------------------------------------
(* C1: on a freshly constructed engine with invalid cells, no weighted     *)
(* cells, a nil Context and no step budget, a path returned for a start    *)
(* different from the end has as many nodes as a shortest 4-connected      *)
(* route from start to end through in-bounds, non-invalid cells has moves. *)

C1_FastestRoute ==
    ( /\ ReturnedPath
      /\ queries = "first"
      /\ ctx.isNil
      /\ Unlimited
      /\ config.WeightedNodes = <<>>
      /\ ~SameXY(startNode, endNode) )
    => Len(ret.path) = OptimalLen(config, ctx, startNode, endNode)

----------------------------------------------------------------------------
(* C2, as the spec states it: on an obstacle-free grid (no invalid cells,  *)
(* no weighted cells, nil Context) FindPath returns, for every in-grid     *)
(* start and end, a contiguous sequence whose length is the Manhattan      *)
(* distance between start and end.                                         *)

ObstacleFreeQuery ==
    /\ Returned
    /\ config.InvalidNodes = <<>>
    /\ config.WeightedNodes = <<>>
    /\ ctx.isNil
    /\ Unlimited
    /\ XY(startNode) \in GridCells(config)
    /\ XY(endNode) \in GridCells(config)

C2_ManhattanLength_Original ==
    ObstacleFreeQuery =>
        /\ ret.err = ErrNil
        /\ Len(ret.path) = Manhattan(XY(startNode), XY(endNode))
        /\ Contiguous(ret.path)

(* C2, amended: the length is the Manhattan distance when start and end    *)
(* differ; when they coincide the sequence is the start node alone.        *)

C2_ManhattanLength ==
    ObstacleFreeQuery =>
        /\ ret.err = ErrNil
        /\ Contiguous(ret.path)
        /\ IF SameXY(startNode, endNode)
           THEN ret.path = <<startNode>>
           ELSE Len(ret.path) = Manhattan(XY(startNode), XY(endNode))

C2_Witness ==
    /\ ObstacleFreeQuery
    /\ Manhattan(XY(startNode), XY(endNode)) >= 3
    /\ Len(ret.path) = Manhattan(XY(startNode), XY(endNode))

----------------------------------------------------------------------------
(* C3: no node of a returned path, the query's own start node aside, has   *)
(* the coordinates of a cell configured in InvalidNodes, however many      *)
(* queries the engine served before.                                       *)

C3_NoInvalidCellOnPath ==
    ReturnedPath =>
        \A i \in 1..Len(ret.path) :
            \/ ret.path[i] = startNode
            \/ XY(ret.path[i]) \notin InvalidCells(config)

----------------------------------------------------------------------------
(* C4: two FindPath calls in sequence on one engine with the same start,   *)
(* end and Context return the same error and the same coordinates.         *)

C4_Idempotent ==
    (Returned /\ prev.valid /\ Unlimited) =>
        /\ ret.err = prev.err
        /\ Coords(ret.path) = Coords(prev.path)

----------------------------------------------------------------------------
(* C5: a query with a step budget k > 0 below the length of the optimal    *)
(* path returns no error and a non-empty sequence whose node at index 0 is *)
(* the node extracted at step k (steps = k on return) and is not the end.  *)

C5_StepBudget ==
    ( /\ Returned
      /\ maxSteps > 0
      /\ maxSteps < OptimalLen(config, ctx, startNode, endNode) )
    => /\ ret.err = ErrNil
       /\ ret.path # <<>>
       /\ steps = maxSteps
       /\ <<ret.path[1]>> = ret.terminal
       /\ ~SameXY(ret.path[1], endNode)

----------------------------------------------------------------------------
(* C6, as the spec states it: a returned sequence is the terminal node     *)
(* followed by its successive ancestors, and never holds the start node.   *)

IsStartNode(n) == n.parent = NilPtr \/ SameXY(n, startNode)

AncestorChain(path) ==
    /\ path # <<>>
    /\ <<path[1]>> = ret.terminal
    /\ \A i \in 1..(Len(path) - 1) : path[i].parent = <<path[i + 1]>>

C6_StartNeverEmitted_Original ==
    ReturnedPath =>
        /\ AncestorChain(ret.path)
        /\ \A i \in 1..Len(ret.path) : ~IsStartNode(ret.path[i])

(* C6, amended: the start node is emitted only when it is itself the       *)
(* terminal node, and then the sequence is the start node alone; otherwise *)
(* the sequence stops at the node whose ancestor is the start node.        *)

C6_StartNeverEmitted ==
    ReturnedPath =>
        /\ AncestorChain(ret.path)
        /\ IF ret.terminal = <<startNode>>
           THEN ret.path = <<startNode>>
           ELSE /\ \A i \in 1..Len(ret.path) : ~IsStartNode(ret.path[i])
                /\ ret.path[Len(ret.path)].parent = <<startNode>>

C6_Witness ==
    /\ ReturnedPath
    /\ Len(ret.path) >= 3
    /\ ret.path[Len(ret.path)].parent = <<startNode>>

----------------------------------------------------------------------------
(* C7: when the four neighbours of the start are configured invalid cells  *)
(* and the end is another cell, every FindPath call with a nil Context     *)
(* returns a nil path and ErrorNoPath.                                     *)

Enclosed(cfg, n) ==
    { <<n.X, n.Y + 1>>, <<n.X, n.Y - 1>>, <<n.X - 1, n.Y>>,
      <<n.X + 1, n.Y>> } \subseteq InvalidCells(cfg)

C7_EnclosedStartNoPath ==
    ( /\ Returned
      /\ ctx.isNil
      /\ Unlimited
      /\ ~SameXY(startNode, endNode)
      /\ Enclosed(config, startNode) )
    => ret.path = <<>> /\ ret.err = ErrorNoPath

----------------------------------------------------------------------------
(* C8: on a freshly constructed engine, with a nil Context and no step     *)
(* budget, FindPath returns a nil path and ErrorNoPath exactly when no     *)
(* 4-connected route leads from start to end through in-bounds cells that  *)
(* are not configured invalid, and else a path ending at the end's cell.   *)

FreshPlainQuery ==
    /\ Returned
    /\ queries = "first"
    /\ ctx.isNil
    /\ Unlimited

C8_Complete ==
    FreshPlainQuery =>
        IF OptimalLen(config, ctx, startNode, endNode) = -1
        THEN ret.path = <<>> /\ ret.err = ErrorNoPath
        ELSE /\ ret.err = ErrNil
             /\ ret.path # <<>>
             /\ XY(ret.path[1]) = XY(endNode)

C8_Witness ==
    /\ FreshPlainQuery
    /\ config.InvalidNodes # <<>>
    /\ ret.err = ErrNil
    /\ Len(ret.path) > Manhattan(XY(startNode), XY(endNode))

----------------------------------------------------------------------------
(* C9, as the spec states it: against the result of the same query without *)
(* budget on the same engine state, a budget of StepsNoLimit or 0 changes  *)
(* nothing, and neither does a positive budget that is at least the number *)
(* of steps the unlimited search performs.                                 *)

SameAsUnlimited ==
    /\ ret.err = prev.err
    /\ ret.path = prev.path
    /\ steps = prev.steps

RepeatsUnlimited == Returned /\ prev.valid /\ prev.closed0 = closed0

C9_BudgetOnlyWhenPositive_Original ==
    RepeatsUnlimited =>
        /\ maxSteps <= 0 => SameAsUnlimited
        /\ (maxSteps > 0 /\ maxSteps >= prev.steps) => SameAsUnlimited

(* C9, amended: a positive budget leaves the result unchanged when it      *)
(* exceeds the number of steps of the unlimited search, or equals it and   *)
(* the unlimited search found a path.                                      *)

C9_BudgetOnlyWhenPositive ==
    RepeatsUnlimited =>
        /\ maxSteps <= 0 => SameAsUnlimited
        /\ ( /\ maxSteps > 0
             /\ \/ maxSteps > prev.steps
                \/ maxSteps = prev.steps /\ prev.err = ErrNil )
           => SameAsUnlimited

C9_Witness ==
    /\ RepeatsUnlimited
    /\ maxSteps > 0
    /\ maxSteps = prev.steps
    /\ ret.err = ErrNil
    /\ ~SameXY(startNode, endNode)

----------------------------------------------------------------------------
(* C10: New returns a nil engine exactly when GridWidth < 2 or             *)
(* GridHeight < 2, and else an engine whose closed list holds exactly the  *)
(* configured invalid cells and whose open list is empty.                  *)

C10_Construction ==
    queries = "none" =>
        /\ pfNil <=> (config.GridWidth < 2 \/ config.GridHeight < 2)
        /\ ~pfNil => /\ closedList = config.InvalidNodes
                     /\ ListIsEmpty(openList)

C10_Witness ==
    /\ queries = "none"
    /\ ~pfNil
    /\ config.InvalidNodes # <<>>
    /\ closedList = config.InvalidNodes

----------------------------------------------------------------------------
(* Further notions *)

\* the nodes the running query has extracted so far, in extraction order
Extracted == SubSeq(closedList, Len(closed0) + 1, Len(closedList))

CoordsDistinct(l) ==
    \A i \in 1..Len(l) : \A j \in 1..Len(l) :
        i # j => XY(l[i]) # XY(l[j])

\* the sum of the Weighting of entries i.. of wNodes that lie on cell
RECURSIVE WeightingAt(_, _, _)
WeightingAt(wNodes, i, cell) ==
    IF i > Len(wNodes) THEN 0
    ELSE (IF XY(wNodes[i]) = cell THEN wNodes[i].Weighting ELSE 0)
         + WeightingAt(wNodes, i + 1, cell)

----------------------------------------------------------------------------
(* C11: in every state after construction, between, during and after the   *)
(* queries, every configured invalid cell is a member of the closed list.  *)

C11_InvalidStayClosed ==
    ~pfNil =>
        \A i \in 1..Len(config.InvalidNodes) :
            \E j \in 1..Len(closedList) :
                XY(closedList[j]) = XY(config.InvalidNodes[i])

----------------------------------------------------------------------------
(* C12: every node that expansion put into the open list has g equal to    *)
(* its ancestor's g plus 1 plus the Weighting of every weighted entry on   *)
(* its cell, h the Manhattan distance to the end node and f = g + h.       *)

C12_Scoring ==
    pc = "loop" =>
        \A i \in 1..Len(openList) :
            LET n == openList[i] IN
            n.parent # NilPtr =>
                /\ n.g = n.parent[1].g + 1
                           + WeightingAt(config.WeightedNodes, 1, XY(n))
                /\ n.h = Manhattan(XY(n), XY(endNode))
                /\ n.f = n.g + n.h

----------------------------------------------------------------------------
(* C13, as the spec states it: at every point of a query the open and the  *)
(* closed list hold no common coordinate, no coordinate is extracted       *)
(* twice, and no coordinate that was closed when the query began is        *)
(* extracted, whatever the start node.                                     *)

InClosed(n) == \E j \in 1..Len(closedList) : XY(closedList[j]) = XY(n)

InClosed0(n) == \E j \in 1..Len(closed0) : XY(closed0[j]) = XY(n)

C13_NoReopening_Original ==
    pc = "loop" =>
        /\ \A i \in 1..Len(openList) : ~InClosed(openList[i])
        /\ CoordsDistinct(Extracted)
        /\ \A k \in 1..Len(Extracted) : ~InClosed0(Extracted[k])

(* C13, amended: the one exception is a start node lying on a cell that is *)
(* closed when the query begins (a configured invalid cell on a fresh      *)
(* engine): it is put into the open list and extracted, once, as the first *)
(* node.  No other closed coordinate is in the open list or extracted, and *)
(* no coordinate is extracted twice.                                       *)

C13_NoReopening ==
    pc = "loop" =>
        /\ \A i \in 1..Len(openList) :
              InClosed(openList[i]) =>
                  /\ steps = 0
                  /\ openList = <<startNode>>
                  /\ InClosed0(startNode)
        /\ CoordsDistinct(Extracted)
        /\ \A k \in 1..Len(Extracted) :
              InClosed0(Extracted[k]) => k = 1 /\ Extracted[k] = startNode

C13_Witness ==
    /\ pc = "loop"
    /\ queries = "first"
    /\ InClosed0(startNode)
    /\ Len(Extracted) >= 3
    /\ Len(openList) >= 1

----------------------------------------------------------------------------
(* C14: at every point of a query the open list holds at most one node per *)
(* coordinate, and an iteration of the loop leaves every node that stays   *)
(* in the open list as it was (g, h, f and ancestor): a later discovery of *)
(* an open coordinate is dropped.                                          *)

OneNodePerCoordinate == pc = "loop" => CoordsDistinct(openList)

OpenNodesKept ==
    (pc = "loop" /\ pc' = "loop") =>
        \A i \in 1..Len(openList) : \A j \in 1..Len(openList') :
            XY(openList'[j]) = XY(openList[i]) => openList'[j] = openList[i]

C14_FirstDiscoveredWins == []OneNodePerCoordinate /\ [][OpenNodesKept]_vars

\* an open node next to an expanded node that is not its ancestor: the
\* expansion of that node found the coordinate again and dropped it
C14_Witness ==
    /\ pc = "loop"
    /\ \E i \in 1..Len(openList) : \E k \in 1..Len(Extracted) :
          /\ Adjacent(XY(openList[i]), XY(Extracted[k]))
          /\ openList[i].parent # <<Extracted[k]>>
          /\ openList[i].parent # NilPtr

----------------------------------------------------------------------------
(* C15: when a query returns, on whatever exit path, the open list is      *)
(* empty and the closed list is as the first query found it: it holds the  *)
(* configured invalid cells and no node added during the query.            *)

C15_Teardown ==
    Returned =>
        /\ ListIsEmpty(openList)
        /\ closedList = config.InvalidNodes

----------------------------------------------------------------------------
(* C16: with a Context, every node that expansion put into the open list   *)
(* lies on a cell that IsInBlock does not report, and so does every node   *)
(* of a returned path but the query's own start node; every in-grid        *)
(* neighbour of an expanded node that is neither closed nor open is a      *)
(* blocked cell, so with a nil Context expansion leaves no neighbour out.  *)

Blocked(c) == IF c.isNil THEN {} ELSE c.blocked

Neighbours(cell) ==
    { <<cell[1], cell[2] + 1>>, <<cell[1], cell[2] - 1>>,
      <<cell[1] - 1, cell[2]>>, <<cell[1] + 1, cell[2]>> }

ListCells(l) == { XY(l[i]) : i \in 1..Len(l) }

C16_DynamicBlocking ==
    /\ pc = "loop" =>
          /\ \A i \in 1..Len(openList) :
                \/ openList[i] = startNode
                \/ XY(openList[i]) \notin Blocked(ctx)
          /\ \A k \in 1..Len(Extracted) :
                \A n \in Neighbours(XY(Extracted[k])) \cap GridCells(config) :
                    \/ n \in ListCells(closedList) \cup ListCells(openList)
                    \/ n \in Blocked(ctx)
    /\ ReturnedPath =>
          \A i \in 1..Len(ret.path) :
              \/ ret.path[i] = startNode
              \/ XY(ret.path[i]) \notin Blocked(ctx)

\* a query with a Context returned a path that passes next to a blocked cell
C16_Witness ==
    /\ ReturnedPath
    /\ ~ctx.isNil
    /\ Len(ret.path) >= 3
    /\ XY(startNode) \notin Blocked(ctx)
    /\ \E i \in 1..Len(ret.path) : \E b \in Blocked(ctx) :
          Adjacent(XY(ret.path[i]), b) /\ b \notin InvalidCells(config)

----------------------------------------------------------------------------
(* C17: no node a query extracted and went on from satisfies the goal      *)
(* test, and the node at index 0 of a path returned without step budget    *)
(* has the end node's coordinates or, with a Context, lies on a cell that  *)
(* IsNearEnough reports; with a nil Context it has the end's coordinates.  *)

C17_GoalAcceptance ==
    /\ pc = "loop" =>
          \A k \in 1..Len(Extracted) :
              XY(Extracted[k]) \notin GoalCells(ctx, endNode)
    /\ (ReturnedPath /\ maxSteps <= 0) =>
          /\ ret.path # <<>>
          /\ <<ret.path[1]>> = ret.terminal
          /\ XY(ret.path[1]) \in GoalCells(ctx, endNode)
          /\ ctx.isNil => XY(ret.path[1]) = XY(endNode)

\* a path accepted by IsNearEnough on a cell that is not the end
C17_Witness ==
    /\ ReturnedPath
    /\ maxSteps <= 0
    /\ ~ctx.isNil
    /\ Len(ret.path) >= 2
    /\ XY(ret.path[1]) \in ctx.near
    /\ XY(ret.path[1]) # XY(endNode)

----------------------------------------------------------------------------
(* C18: every returned path is a simple 4-connected walk: consecutive      *)
(* nodes are 4-adjacent, no coordinate occurs twice, every node but the    *)
(* query's start node lies inside the grid and, unless the path is the     *)
(* start node alone, its last node is 4-adjacent to the start node.        *)

C18_SimpleWalk ==
    ReturnedPath =>
        /\ Contiguous(ret.path)
        /\ CoordsDistinct(ret.path)
        /\ \A i \in 1..Len(ret.path) :
              \/ ret.path[i] = startNode
              \/ XY(ret.path[i]) \in GridCells(config)
        /\ ret.path # <<startNode>> =>
              /\ ret.path # <<>>
              /\ Adjacent(XY(ret.path[Len(ret.path)]), XY(startNode))

\* a path of several nodes cut off by the step budget, away from the end
C18_Witness ==
    /\ ReturnedPath
    /\ maxSteps > 0
    /\ steps = maxSteps
    /\ Len(ret.path) >= 2
    /\ XY(ret.path[1]) # XY(endNode)
    /\ Adjacent(XY(ret.path[Len(ret.path)]), XY(startNode))

----------------------------------------------------------------------------
(* C19: every query that was started returns, and the step counter never   *)
(* exceeds GridWidth * GridHeight + 1.                                     *)

StepsBounded == steps <= config.GridWidth * config.GridHeight + 1

C19_Termination == []StepsBounded /\ ((pc = "loop") ~> Returned)

\* a query that extracted the start node and every cell of the grid
C19_Witness ==
    /\ Returned
    /\ steps = config.GridWidth * config.GridHeight + 1

----------------------------------------------------------------------------
(* C20: GetMinFNode is called only on a non-empty open list, so no query   *)
(* returns the "cannot get minF node" error; the node it yields is still   *)
(* in the open list after the call, and it is the Remove call that takes   *)
(* it out: exactly that node leaves the open list in the iteration.        *)

MinFErrorUnreachable == ret.err # ErrMinF

\* a step that called GetMinFNode: an iteration of the loop
ExtractionStep == pc = "loop" /\ (steps' = steps + 1 \/ ret'.err = ErrMinF)

ExtractionSound ==
    ExtractionStep =>
        /\ ~ListIsEmpty(openList)
        /\ ~ListGetMinFNode(openList).err
        /\ LET currentNode == ListGetMinFNode(openList).node
               removed == ListRemove(openList, currentNode)
           IN  /\ \E i \in 1..Len(openList) : openList[i] = currentNode
               /\ Len(removed) = Len(openList) - 1
               /\ ~ListContains(removed, currentNode)
               /\ pc' = "loop" =>
                    /\ Len(openList') >= Len(removed)
                    /\ SubSeq(openList', 1, Len(removed)) = removed
                    /\ ~ListContains(openList', currentNode)
                    /\ closedList' = closedList \o <<currentNode>>

C20_MinFNeverOnEmpty == []MinFErrorUnreachable /\ [][ExtractionSound]_vars

\* the loop condition is evaluated on an open list that the search emptied
C20_Witness ==
    /\ pc = "loop"
    /\ ListIsEmpty(openList)
    /\ steps >= 2

====
